---- MODULE Spec2Model ----
(***************************************************************************)
(* Model of bcd/distributions.py: the Gaussian conjugate-prior family used *)
(* by Bayesian changepoint detection.  A Gaussian instance holds eight     *)
(* attributes (kappa0, mu0, alpha0, beta0, kappa, mu, alpha, beta), each a *)
(* reference to a 1-D numpy array.  update rebinds the four current        *)
(* attributes to freshly concatenated arrays; pdf reads them.              *)
(*                                                                         *)
(* Numbers are exact rationals <<n, d>> in lowest terms with d > 0; the    *)
(* results numpy produces for a division by zero or the square root of a   *)
(* negative (inf, -inf, nan, with a warning and no exception) are the one  *)
(* value NonFinite.  Rounding and overflow of IEEE doubles are not         *)
(* modelled.                                                               *)
(***************************************************************************)
EXTENDS Integers, Sequences, FiniteSets, TLC

\* heap:   the contents of every numpy array object, by object id
\* self:   the attributes of the Gaussian instance, each an object id
\* hist:   the observations of the update calls that completed, in order
\* result: the last call: its method, its observation, its outcome ("ok" or
\*         the exception raised) and the value it returned
\* args:   the arguments the instance was constructed with
VARIABLES heap, self, hist, result, args

vars == <<heap, self, hist, result, args>>

(***************************************************************************)
(* Bounds of the model.                                                    *)
(***************************************************************************)
MaxUpdates == 3

(***************************************************************************)
(* Numbers.                                                                *)
(***************************************************************************)
Abs(n) == IF n < 0 THEN -n ELSE n

RECURSIVE GCD(_, _)
GCD(a, b) == IF b = 0 THEN a ELSE GCD(b, a % b)

NonFinite == <<1, 0>>

IsFinite(a) == a[2] # 0

Norm(n, d) ==
    IF d = 0 THEN NonFinite
    ELSE LET g == GCD(Abs(n), Abs(d))
             s == IF d < 0 THEN -1 ELSE 1
         IN  <<(s * n) \div g, (s * d) \div g>>

Q(n) == <<n, 1>>

Half == <<1, 2>>

Add(a, b) ==
    IF IsFinite(a) /\ IsFinite(b)
    THEN Norm(a[1] * b[2] + b[1] * a[2], a[2] * b[2])
    ELSE NonFinite

Sub(a, b) ==
    IF IsFinite(a) /\ IsFinite(b)
    THEN Norm(a[1] * b[2] - b[1] * a[2], a[2] * b[2])
    ELSE NonFinite

Mul(a, b) ==
    IF IsFinite(a) /\ IsFinite(b)
    THEN Norm(a[1] * b[1], a[2] * b[2])
    ELSE NonFinite

\* numpy true division: a zero divisor gives inf or nan, never an exception.
\* Every divisor of the program is built from kappa and alpha, which stay
\* finite, so the divisor is never NonFinite.
Div(a, b) ==
    IF IsFinite(a) /\ IsFinite(b) /\ b[1] # 0
    THEN Norm(a[1] * b[2], a[2] * b[1])
    ELSE NonFinite

Square(a) == Mul(a, a)

Positive(a) == IsFinite(a) /\ a[1] > 0

\* np.sqrt, symbolically: the root of a negative or non-finite value is
\* non-finite.
Sqrt(v) ==
    IF IsFinite(v) /\ v[1] >= 0 THEN [sqrt |-> v] ELSE [sqrt |-> NonFinite]

\* scipy.stats.t.pdf(x, df, loc, scale), symbolically: the density is the
\* library's; the model keeps the arguments it is evaluated at.
StudentT(x, df, loc, scale) ==
    [x |-> x, df |-> df, loc |-> loc, scale |-> scale]

(***************************************************************************)
(* numpy arrays and broadcasting.  An array is a sequence of numbers; a    *)
(* Python scalar broadcasts like an array of length 1.                     *)
(***************************************************************************)
Max(n, m) == IF n >= m THEN n ELSE m

\* The length of the broadcast of two 1-D shapes, 0 when numpy raises
\* "operands could not be broadcast together".
BShape(n, m) ==
    IF n = 0 \/ m = 0 THEN 0
    ELSE IF n = m \/ m = 1 THEN n
    ELSE IF n = 1 THEN m
    ELSE 0

At(a, i) == IF Len(a) = 1 THEN a[1] ELSE a[i]

\* The empty sequence stands for "the operation raised ValueError": empty
\* arrays are not among the inputs of the model, and a raised operand makes
\* the enclosing expression raise.
Failed == <<>>

BinOp(op, x, y) ==
    CASE op = "+" -> Add(x, y)
      [] op = "-" -> Sub(x, y)
      [] op = "*" -> Mul(x, y)
      [] op = "/" -> Div(x, y)

\* An elementwise binary operation of numpy, with broadcasting.
B(op, a, b) ==
    IF BShape(Len(a), Len(b)) = 0 THEN Failed
    ELSE [i \in 1..Max(Len(a), Len(b)) |-> BinOp(op, At(a, i), At(b, i))]

\* a ** 2, elementwise.
Squares(a) == [i \in 1..Len(a) |-> Square(a[i])]

\* np.sqrt(a), elementwise.
Sqrts(a) == [i \in 1..Len(a) |-> Sqrt(a[i])]

Scalar(x) == <<x>>

Concatenate(a, b) == a \o b

(***************************************************************************)
(* Observations handed to pdf and update by the caller.                    *)
(***************************************************************************)
Num(x) == [kind |-> "scalar", val |-> <<x>>]

Arr(s) == [kind |-> "seq", val |-> s]

None == [kind |-> "none", val |-> <<>>]

Str == [kind |-> "str", val |-> <<>>]

\* IsNumeric accepting Python scalars only.
IsNumeric_ScalarOnly(obs) == obs.kind = "scalar"

\* What numpy's arithmetic accepts: numbers and sequences of numbers; None
\* and strings raise TypeError.
IsNumeric(obs) == obs.kind \in {"scalar", "seq"}

ScalarObs == {Num(Q(-1)), Num(Q(0)), Num(Q(2))}

AnyObs == {Num(Q(0)), Num(Q(2)), None, Str,
           Arr(<<Q(3)>>), Arr(<<Q(1), Q(-2)>>)}

(***************************************************************************)
(* Construction arguments.                                                 *)
(***************************************************************************)
KappaArgs == {Q(-1), Q(0), Q(1), Q(2)}

MuArgs == {Q(0), Q(-1)}

AlphaArgs == {Q(0), Q(1)}

BetaArgs == {Q(-1), Q(1)}

ValidKappaArgs == {Q(1), Q(2)}

ValidAlphaArgs == {Q(1)}

ValidBetaArgs == {Q(1)}

(***************************************************************************)
(* The instance.  Array objects live in heap; the attributes of self are   *)
(* references.  An array nothing refers to any more is collected and its   *)
(* id reused, so each attribute pair needs two ids: the array made by      *)
(* __init__ and the array made by the latest concatenate.                  *)
(***************************************************************************)
ObjIds == {"kappa#0", "kappa#1", "mu#0", "mu#1",
           "alpha#0", "alpha#1", "beta#0", "beta#1"}

kappa0 == heap[self.kappa0]

mu0 == heap[self.mu0]

alpha0 == heap[self.alpha0]

beta0 == heap[self.beta0]

kappa == heap[self.kappa]

mu == heap[self.mu]

alpha == heap[self.alpha]

beta == heap[self.beta]

Returned(op, obs, value) ==
    [op |-> op, obs |-> obs, outcome |-> "ok", value |-> value]

Raised(op, obs, exc) ==
    [op |-> op, obs |-> obs, outcome |-> exc, value |-> <<>>]

\* GaussianInit with the validation __init__ does not have: non-positive
\* kappa, alpha or beta raise and leave no attribute set.
GaussianInit_Validating(k, m, a, b) ==
    /\ args = [kappa |-> k, mu |-> m, alpha |-> a, beta |-> b]
    /\ heap = [o \in ObjIds |->
                 IF Positive(k) /\ Positive(a) /\ Positive(b)
                 THEN CASE o = "kappa#0" -> <<k>>
                        [] o = "mu#0"    -> <<m>>
                        [] o = "alpha#0" -> <<a>>
                        [] o = "beta#0"  -> <<b>>
                        [] OTHER         -> <<>>
                 ELSE <<>>]
    /\ self = [kappa0 |-> "kappa#0", kappa |-> "kappa#0",
               mu0    |-> "mu#0",    mu    |-> "mu#0",
               alpha0 |-> "alpha#0", alpha |-> "alpha#0",
               beta0  |-> "beta#0",  beta  |-> "beta#0"]
    /\ hist = <<>>
    /\ result = IF Positive(k) /\ Positive(a) /\ Positive(b)
                THEN Returned("__init__", None, <<>>)
                ELSE Raised("__init__", None, "ValueError")

\* Gaussian.__init__: each prior attribute and its current attribute are
\* bound to the same new array; nothing is validated.
GaussianInit(k, m, a, b) ==
    /\ args = [kappa |-> k, mu |-> m, alpha |-> a, beta |-> b]
    /\ heap = [o \in ObjIds |->
                 CASE o = "kappa#0" -> <<k>>
                   [] o = "mu#0"    -> <<m>>
                   [] o = "alpha#0" -> <<a>>
                   [] o = "beta#0"  -> <<b>>
                   [] OTHER         -> <<>>]
    /\ self = [kappa0 |-> "kappa#0", kappa |-> "kappa#0",
               mu0    |-> "mu#0",    mu    |-> "mu#0",
               alpha0 |-> "alpha#0", alpha |-> "alpha#0",
               beta0  |-> "beta#0",  beta  |-> "beta#0"]
    /\ hist = <<>>
    /\ result = Returned("__init__", None, <<>>)

(***************************************************************************)
(* Gaussian.update                                                         *)
(***************************************************************************)
\* new_kappa = self.kappa + 1
new_kappa(kp) == B("+", kp, Scalar(Q(1)))

\* new_mu computed from the already-advanced kappa.
new_mu_Advanced(kp, m, x) ==
    B("/", B("+", B("*", B("+", kp, Scalar(Q(1))), m), x),
           B("+", kp, Scalar(Q(1))))

\* new_mu = (self.kappa * self.mu + observation) / (self.kappa + 1)
new_mu(kp, m, x) ==
    B("/", B("+", B("*", kp, m), x), B("+", kp, Scalar(Q(1))))

\* new_alpha = (self.alpha + 0.5)
new_alpha(a) == B("+", a, Scalar(Half))

\* new_beta with the deviation term subtracted.
new_beta_Minus(b, kp, m, x) ==
    B("-", b,
      B("/", B("*", kp, Squares(B("-", x, m))),
             B("+", B("*", Scalar(Q(2)), kp), Scalar(Q(2)))))

\* new_beta = self.beta + ((self.kappa * (observation - self.mu) ** 2) /
\*                         (2 * self.kappa + 2))
new_beta(b, kp, m, x) ==
    B("+", b,
      B("/", B("*", kp, Squares(B("-", x, m))),
             B("+", B("*", Scalar(Q(2)), kp), Scalar(Q(2)))))

\* Rebuilt without the prior in front.
Rebuilt_NoPrior(prior, new) == new

\* Rebuilt with the prior at the end.
Rebuilt_PriorLast(prior, new) == Concatenate(new, prior)

\* self.<attr> = np.concatenate([self.<attr>0, new_<attr>])
Rebuilt(prior, new) == Concatenate(prior, new)

\* Update writing the concatenated arrays into the arrays the attributes
\* refer to, instead of rebinding the attributes to new arrays.
Update_InPlace(obs) ==
    /\ Len(hist) < MaxUpdates
    /\ IF ~IsNumeric(obs)
       THEN /\ result' = Raised("update", obs, "TypeError")
            /\ UNCHANGED <<heap, self, hist, args>>
       ELSE LET nk == new_kappa(kappa)
                nm == new_mu(kappa, mu, obs.val)
                na == new_alpha(alpha)
                nb == new_beta(beta, kappa, mu, obs.val)
            IN  IF nm = Failed \/ nb = Failed
                THEN /\ result' = Raised("update", obs, "ValueError")
                     /\ UNCHANGED <<heap, self, hist, args>>
                ELSE /\ heap' = [heap EXCEPT
                                   ![self.kappa] = Rebuilt(kappa0, nk),
                                   ![self.mu]    = Rebuilt(mu0, nm),
                                   ![self.alpha] = Rebuilt(alpha0, na),
                                   ![self.beta]  = Rebuilt(beta0, nb)]
                     /\ hist' = Append(hist, obs)
                     /\ result' = Returned("update", obs, <<>>)
                     /\ UNCHANGED <<self, args>>

Update(obs) ==
    /\ Len(hist) < MaxUpdates
    /\ IF ~IsNumeric(obs)
       THEN /\ result' = Raised("update", obs, "TypeError")
            /\ UNCHANGED <<heap, self, hist, args>>
       ELSE LET nk == new_kappa(kappa)
                nm == new_mu(kappa, mu, obs.val)
                na == new_alpha(alpha)
                nb == new_beta(beta, kappa, mu, obs.val)
            IN  IF nm = Failed \/ nb = Failed
                THEN /\ result' = Raised("update", obs, "ValueError")
                     /\ UNCHANGED <<heap, self, hist, args>>
                ELSE /\ heap' = [heap EXCEPT
                                   !["kappa#1"] = Rebuilt(kappa0, nk),
                                   !["mu#1"]    = Rebuilt(mu0, nm),
                                   !["alpha#1"] = Rebuilt(alpha0, na),
                                   !["beta#1"]  = Rebuilt(beta0, nb)]
                     /\ self' = [self EXCEPT !.kappa = "kappa#1",
                                             !.mu    = "mu#1",
                                             !.alpha = "alpha#1",
                                             !.beta  = "beta#1"]
                     /\ hist' = Append(hist, obs)
                     /\ result' = Returned("update", obs, <<>>)
                     /\ UNCHANGED args

(***************************************************************************)
(* Gaussian.pdf                                                            *)
(***************************************************************************)
\* Variance with kappa and kappa + 1 exchanged.
Variance_Swapped(b, kp, a) ==
    B("/", B("*", b, kp), B("*", a, B("+", kp, Scalar(Q(1)))))

\* variance = self.beta * (self.kappa + 1) / (self.alpha * self.kappa)
Variance(b, kp, a) ==
    B("/", B("*", b, B("+", kp, Scalar(Q(1)))), B("*", a, kp))

\* stats.t.pdf broadcasts x, df, loc and scale against each other.
TPdf(x, df, loc, scale) ==
    LET n == BShape(BShape(BShape(Len(x), Len(df)), Len(loc)), Len(scale))
    IN  IF n = 0 THEN Failed
        ELSE [i \in 1..n |->
                StudentT(At(x, i), At(df, i), At(loc, i), At(scale, i))]

\* PdfValue over the fitted hypotheses only, without the prior's entry.
PdfValue_SkipPrior(obs) ==
    IF Len(kappa) = 1 THEN Failed
    ELSE LET variance == Variance(Tail(beta), Tail(kappa), Tail(alpha))
         IN  TPdf(obs.val, B("*", Scalar(Q(2)), Tail(alpha)), Tail(mu),
                  Sqrts(variance))

PdfValue(obs) ==
    LET variance == Variance(beta, kappa, alpha)
    IN  TPdf(obs.val, B("*", Scalar(Q(2)), alpha), mu, Sqrts(variance))

\* Pdf scaling self.beta in place while it computes the variance.
Pdf_InPlace(obs) ==
    /\ IF ~IsNumeric(obs)
       THEN /\ result' = Raised("pdf", obs, "TypeError")
            /\ UNCHANGED heap
       ELSE IF PdfValue(obs) = Failed
            THEN /\ result' = Raised("pdf", obs, "ValueError")
                 /\ UNCHANGED heap
            ELSE /\ result' = Returned("pdf", obs, PdfValue(obs))
                 /\ heap' = [heap EXCEPT ![self.beta] =
                                 B("*", beta, B("+", kappa, Scalar(Q(1))))]
    /\ UNCHANGED <<self, hist, args>>

Pdf(obs) ==
    /\ IF ~IsNumeric(obs)
       THEN result' = Raised("pdf", obs, "TypeError")
       ELSE IF PdfValue(obs) = Failed
            THEN result' = Raised("pdf", obs, "ValueError")
            ELSE result' = Returned("pdf", obs, PdfValue(obs))
    /\ UNCHANGED <<heap, self, hist, args>>

(***************************************************************************)
(* Specifications.  Spec: any construction arguments, scalar numeric       *)
(* observations.  SpecAnyObs: valid construction arguments, observations   *)
(* of any kind.                                                            *)
(***************************************************************************)
Init ==
    \E k \in KappaArgs, m \in MuArgs, a \in AlphaArgs, b \in BetaArgs :
        GaussianInit(k, m, a, b)

Next == \E obs \in ScalarObs : Update(obs) \/ Pdf(obs)

Spec == Init /\ [][Next]_vars

InitValid ==
    \E k \in ValidKappaArgs, m \in MuArgs,
       a \in ValidAlphaArgs, b \in ValidBetaArgs :
        GaussianInit(k, m, a, b)

NextAnyObs == \E obs \in AnyObs : Update(obs) \/ Pdf(obs)

SpecAnyObs == InitValid /\ [][NextAnyObs]_vars

(***************************************************************************)
(* Properties.                                                             *)
(***************************************************************************)
\* The number of update calls that completed.
t == Len(hist)

\* The scalar value of the observation of the last call.
LastX == result.obs.val[1]

PdfReturned == result.op = "pdf" /\ result.outcome = "ok"

UpdateReturned == result.op = "update" /\ result.outcome = "ok"

ValidArgs ==
    Positive(args.kappa) /\ Positive(args.alpha) /\ Positive(args.beta)

C2_PriorKept ==
    /\ kappa[1] = args.kappa /\ kappa0 = <<args.kappa>>
    /\ mu[1] = args.mu       /\ mu0 = <<args.mu>>
    /\ alpha[1] = args.alpha /\ alpha0 = <<args.alpha>>
    /\ beta[1] = args.beta   /\ beta0 = <<args.beta>>

\* The first update has run on the shared array and a later one followed;
\* the fitted values differ from the prior.
C2_Witness ==
    /\ ValidArgs
    /\ t >= 2
    /\ self.kappa # self.kappa0
    /\ kappa[2] # kappa[1]
    /\ beta[2] # beta[1]
    /\ PdfReturned

\* A step in which update returns: the new sequences, index by index, in
\* terms of the sequences before the call.
C3_Step ==
    (result'.op = "update" /\ result'.outcome = "ok") =>
        LET x == result'.obs.val[1]
        IN  /\ Len(kappa') = Len(kappa) + 1
            /\ Len(mu') = Len(kappa) + 1
            /\ Len(alpha') = Len(kappa) + 1
            /\ Len(beta') = Len(kappa) + 1
            /\ \A i \in 1..Len(kappa) :
                  /\ kappa'[i + 1] = Add(kappa[i], Q(1))
                  /\ mu'[i + 1] =
                        Div(Add(Mul(kappa[i], mu[i]), x), Add(kappa[i], Q(1)))
                  /\ alpha'[i + 1] = Add(alpha[i], Half)
                  /\ beta'[i + 1] =
                        Add(beta[i],
                            Div(Mul(kappa[i], Square(Sub(x, mu[i]))),
                                Add(Mul(Q(2), kappa[i]), Q(2))))

\* C3: an update(x) on sequences of length n gives, for every i in
\* 0..n-1, kappa'[i+1] = kappa[i] + 1,
\* mu'[i+1] = (kappa[i]*mu[i] + x) / (kappa[i] + 1),
\* alpha'[i+1] = alpha[i] + 0.5 and
\* beta'[i+1] = beta[i] + kappa[i]*(x - mu[i])^2 / (2*kappa[i] + 2),
\* every right-hand side read from the state before the call.
C3_UpdateFormulas == [][C3_Step]_vars

\* An update has acted on sequences of length 2 whose means differ, with an
\* observation away from both means.
C3_Witness ==
    /\ ValidArgs
    /\ UpdateReturned
    /\ t = 2
    /\ hist[1] # hist[2]
    /\ IsFinite(mu[3])
    /\ mu[2] # mu[3]
    /\ beta[3] # beta[2]

\* A pdf step changes neither an array, nor an attribute, nor the history.
C4_PdfStep ==
    result'.op = "pdf" => UNCHANGED <<heap, self, hist, args>>

\* After pdf(x) has returned, and until the next update, pdf(x) returns the
\* same value again.
C4_Repeatable == PdfReturned => PdfValue(result.obs) = result.value

\* C4: pdf leaves kappa, mu, alpha, beta and the four priors unchanged:
\* pdf calls between two updates return the identical result for the same
\* observation each time, and the updates that follow start from the state
\* they would have had without the pdf calls.
C4_PdfPure == [][C4_PdfStep]_vars /\ []C4_Repeatable

\* A pdf call has returned on an instance that has been updated.
C4_Witness ==
    /\ ValidArgs
    /\ PdfReturned
    /\ t >= 1
    /\ self.beta # self.beta0

\* The single-hypothesis conjugate update of the hyperparameters h by the
\* observation x.
ConjugateStep(h, x) ==
    [kappa |-> Add(h.kappa, Q(1)),
     mu    |-> Div(Add(Mul(h.kappa, h.mu), x), Add(h.kappa, Q(1))),
     alpha |-> Add(h.alpha, Half),
     beta  |-> Add(h.beta,
                   Div(Mul(h.kappa, Square(Sub(x, h.mu))),
                       Add(Mul(Q(2), h.kappa), Q(2))))]

\* h advanced by the observations xs, in order.
RECURSIVE Fit(_, _)
Fit(h, xs) ==
    IF xs = <<>> THEN h ELSE Fit(ConjugateStep(h, Head(xs).val[1]), Tail(xs))

\* The hyperparameters of run length i (0-based).
Hypothesis(i) ==
    [kappa |-> kappa[i + 1], mu |-> mu[i + 1],
     alpha |-> alpha[i + 1], beta |-> beta[i + 1]]

\* C5: after t updates with x_1..x_t, for every i in 1..t the
\* hyperparameters at index i are the construction-time prior advanced by
\* exactly the i most recent observations x_(t-i+1)..x_t, in that order.
C5_RecentObservations ==
    \A i \in 1..t : Hypothesis(i) = Fit(args, SubSeq(hist, t - i + 1, t))

\* Three updates with pairwise distinct observations: index 1 and index 2
\* then differ from what the oldest observations would give.
C5_Witness ==
    /\ ValidArgs
    /\ t = 3
    /\ hist[1] # hist[2] /\ hist[2] # hist[3] /\ hist[1] # hist[3]
    /\ Hypothesis(1) # Fit(args, SubSeq(hist, 1, 1))
    /\ Hypothesis(2) # Fit(args, SubSeq(hist, 1, 2))

\* C6: pdf(x) returns one entry per hypothesis, in index order; entry i is
\* the Student's-t density at x with 2*alpha[i] degrees of freedom,
\* location mu[i] and scale sqrt(beta[i]*(kappa[i]+1) / (alpha[i]*kappa[i])).
C6_PdfEntries ==
    PdfReturned =>
        /\ Len(result.value) = Len(kappa)
        /\ \A i \in 1..Len(kappa) :
              result.value[i] =
                  StudentT(LastX, Mul(Q(2), alpha[i]), mu[i],
                           Sqrt(Div(Mul(beta[i], Add(kappa[i], Q(1))),
                                    Mul(alpha[i], kappa[i]))))

\* Gaussian(1, 0, 1, 1), update(0), pdf(0): the entries are the densities
\* with (df 2, loc 0, scale sqrt 2) and (df 3, loc 0, scale sqrt 1).
C6_Witness ==
    /\ args = [kappa |-> Q(1), mu |-> Q(0), alpha |-> Q(1), beta |-> Q(1)]
    /\ hist = <<Num(Q(0))>>
    /\ PdfReturned
    /\ result.value =
          <<StudentT(Q(0), Q(2), Q(0), [sqrt |-> Q(2)]),
            StudentT(Q(0), Q(3), Q(0), [sqrt |-> Q(1)])>>

\* C7: constructed with kappa > 0, alpha > 0 and beta > 0, every element
\* of kappa, alpha and beta stays strictly positive under any updates with
\* scalar observations.
C7_Positive ==
    ValidArgs =>
        /\ \A i \in 1..Len(kappa) : Positive(kappa[i])
        /\ \A i \in 1..Len(alpha) : Positive(alpha[i])
        /\ \A i \in 1..Len(beta) : Positive(beta[i])

\* Valid arguments, three updates, the last one away from every mean.
C7_Witness ==
    /\ ValidArgs
    /\ UpdateReturned
    /\ t = 3
    /\ \A i \in 2..4 : beta[i] # args.beta

\* C8 as stated: constructing with a non-positive kappa, alpha or beta ends
\* in an error at construction, so no instance with such a prior exists.
C8_Rejected ==
    (result.op = "__init__" /\ ~ValidArgs) => result.outcome # "ok"

\* C8 amended: construction validates nothing; with a non-positive kappa,
\* alpha or beta it completes normally and stores the values as given, and
\* the update and pdf calls made on that instance with scalar observations
\* complete normally too.
C8_Unvalidated ==
    ~ValidArgs =>
        /\ result.outcome = "ok"
        /\ kappa0 = <<args.kappa>>
        /\ alpha0 = <<args.alpha>>
        /\ beta0 = <<args.beta>>

\* An instance constructed with kappa = 0 has been updated and its pdf
\* taken.
C8_Witness ==
    /\ args.kappa = Q(0)
    /\ t >= 1
    /\ PdfReturned

LongLengths(obs) ==
    {Len(obs.val), Len(kappa), Len(mu), Len(alpha), Len(beta)} \ {1}

\* A pdf or update step: its outcome by the kind and length of the
\* observation.
C9_Step ==
    result'.op \in {"pdf", "update"} =>
        LET obs == result'.obs
        IN  IF obs.kind \in {"none", "str"}
            THEN result'.outcome = "TypeError"
            ELSE IF Cardinality(LongLengths(obs)) <= 1
                 THEN result'.outcome = "ok"
                 ELSE result'.outcome = "ValueError"

====
